---- MODULE Spec2Model ----
(***************************************************************************)
(* Model of the price-record ingestion pipeline: the SQLite store          *)
(* (database.py), the per-market row processor (processor.py) and the      *)
(* Flask application that runs it on a background thread (app.py).         *)
(*                                                                         *)
(* Five specifications are defined:                                        *)
(*   Spec     - the application: run threads executing initialize_app,     *)
(*              interleaved with the HTTP handler that starts a run.       *)
(*   SpecRun  - the startup run on its own, over every kind of legacy row. *)
(*   SpecEdit - the startup run interleaved with the HTTP handlers that    *)
(*              set and remove classifications.                            *)
(*   SpecDb   - the Database class on its own: its public methods called   *)
(*              with arguments drawn from bounded sets.                    *)
(*   SpecReapply - the re-application of the saved classifications after   *)
(*              a market's batch, on snapshots and rows from bounded sets. *)
(***************************************************************************)
EXTENDS Integers, Sequences, FiniteSets, TLC

(***************************************************************************)
(* Bounds                                                                  *)
(***************************************************************************)
MaxStarts == 1          \* manual start requests that pass the is_processing check
MaxRows == 2            \* rows in one legacy table (SpecRun)
MaxConcRows == 1        \* rows in one legacy table (Spec)
MaxId == 3              \* largest surrogate id handed out in SpecDb
MaxBatch == 2           \* longest argument list of a Database method in SpecDb

(***************************************************************************)
(* Values                                                                  *)
(***************************************************************************)
NULL == "NULL"          \* Python None / SQL NULL
ABSENT == "ABSENT"      \* attribute for which hasattr(row, ...) is False

NumPlaceholders == 6
StatusEvery == 100

(***************************************************************************)
(* Storage engine (database.py)                                            *)
(***************************************************************************)
\* The composite key of a products / product_categories row.
KeyOf(r) == <<r.market_name, r.item_code>>

\* The row a 6-element parameter tuple becomes, with its AUTOINCREMENT id.
ProductRow(id, t) ==
  [id |-> id, settlement |-> t[1], market_name |-> t[2], item_name |-> t[3],
   item_code |-> t[4], item_retail_price |-> t[5], item_promotional_price |-> t[6]]

\* A parameter tuple the INSERT statement rejects: wrong number of bindings
\* for the six placeholders, or NULL in a NOT NULL column.
BadBinding(t) ==
  \/ Len(t) # NumPlaceholders
  \/ \E i \in 1..4 : t[i] = NULL

\* Plain INSERT: a mutation of InsertOrReplace that keeps the conflicting row.
InsertNoReplace(rows, id, t) == rows \cup {ProductRow(id, t)}

\* INSERT OR REPLACE under UNIQUE(market_name, item_code): the conflicting
\* row is deleted and the new row stored under a fresh id.
InsertOrReplace(rows, id, t) ==
  {r \in rows : KeyOf(r) # <<t[2], t[4]>>} \cup {ProductRow(id, t)}

\* conn.executemany(insert_sql, products_data): the tuples in order, stopping
\* at the first one that raises.  tbl = [rows, seq].
RECURSIVE ExecuteManyProducts(_, _, _)
ExecuteManyProducts(tbl, batch, i) ==
  IF i > Len(batch) THEN [err |-> FALSE, rows |-> tbl.rows, seq |-> tbl.seq]
  ELSE IF BadBinding(batch[i]) THEN [err |-> TRUE, rows |-> tbl.rows, seq |-> tbl.seq]
  ELSE ExecuteManyProducts(
         [rows |-> InsertOrReplace(tbl.rows, tbl.seq + 1, batch[i]), seq |-> tbl.seq + 1],
         batch, i + 1)

\* insert_products_batch without the rollback: the rows written before the
\* failing tuple stay in the table.
InsertProductsBatchNoRollback(exists, tbl, batch) ==
  IF batch = <<>> THEN [raised |-> FALSE, rows |-> tbl.rows, seq |-> tbl.seq]
  ELSE IF ~exists THEN [raised |-> TRUE, rows |-> tbl.rows, seq |-> tbl.seq]
  ELSE LET res == ExecuteManyProducts(tbl, batch, 1)
       IN [raised |-> res.err, rows |-> res.rows, seq |-> res.seq]

\* Database.insert_products_batch.  Result: raised (sqlite3.Error re-raised),
\* and the table afterwards; the connection context manager rolls the
\* transaction back when executemany raises.
InsertProductsBatch(exists, tbl, batch) ==
  IF batch = <<>> THEN [raised |-> FALSE, rows |-> tbl.rows, seq |-> tbl.seq]
  ELSE IF ~exists THEN [raised |-> TRUE, rows |-> tbl.rows, seq |-> tbl.seq]
  ELSE LET res == ExecuteManyProducts(tbl, batch, 1)
       IN IF res.err THEN [raised |-> TRUE, rows |-> tbl.rows, seq |-> tbl.seq]
          ELSE [raised |-> FALSE, rows |-> res.rows, seq |-> res.seq]

\* One row of product_categories.
CategoryRow(m, c, k) == [market_name |-> m, item_code |-> c, category_code |-> k]

\* An upsert that binds item_code to the market_name column and market_name
\* to the item_code column.
UpsertCategorySwapped(pcs, m, c, k) ==
  {r \in pcs : KeyOf(r) # <<c, m>>} \cup {CategoryRow(c, m, k)}

\* INSERT OR REPLACE INTO product_categories under PRIMARY KEY(market_name, item_code).
UpsertCategory(pcs, m, c, k) ==
  {r \in pcs : KeyOf(r) # <<m, c>>} \cup {CategoryRow(m, c, k)}

\* Database.update_categories_batch: every element is unpacked as
\* (category_code, market_name, item_code) and stored as
\* (market_name, item_code, category_code).
RECURSIVE UpdateCategoriesBatch(_, _, _)
UpdateCategoriesBatch(pcs, assignments, i) ==
  IF i > Len(assignments) THEN pcs
  ELSE UpdateCategoriesBatch(
         UpsertCategory(pcs, assignments[i][2], assignments[i][3], assignments[i][1]),
         assignments, i + 1)

\* The products rows selected by "WHERE id IN (product_ids)".
ProductsWithIds(rows, product_ids) == {r \in rows : r.id \in product_ids}

\* Database.update_product_category: the keys of the products with these ids
\* get category_code; nothing is written when the products table is missing
\* (sqlite3.Error, False returned) or no product has one of the ids.
UpdateProductCategory(pcs, exists, rows, product_ids, category_code) ==
  LET found == ProductsWithIds(rows, product_ids)
  IN IF ~exists \/ found = {} THEN pcs
     ELSE {r \in pcs : ~\E q \in found : KeyOf(q) = KeyOf(r)}
            \cup {CategoryRow(q.market_name, q.item_code, category_code) : q \in found}

\* Database.remove_product_category: the rows with the keys of these products
\* are deleted, under the same conditions.
RemoveProductCategory(pcs, exists, rows, product_ids) ==
  LET found == ProductsWithIds(rows, product_ids)
  IN IF ~exists \/ found = {} THEN pcs
     ELSE {r \in pcs : ~\E q \in found : KeyOf(q) = KeyOf(r)}

\* Database.get_current_categories: dict (market_name, item_code) -> category_code,
\* as the set of its items; rows with an empty category are left out.
GetCurrentCategories(pcs) ==
  {<<KeyOf(r), r.category_code>> : r \in {q \in pcs : q.category_code \notin {NULL, ""}}}

\* dict.get(key) on such an items set (None when the key is missing).
DictGet(items, key) ==
  IF \E e \in items : e[1] = key THEN (CHOOSE e \in items : e[1] = key)[2] ELSE NULL

\* Database.cleanup_orphaned_categories: the rows kept.
CleanupOrphanedCategories(pcs, rows) ==
  {r \in pcs : \E p \in rows : KeyOf(p) = KeyOf(r)}

\* Database.save_category_mapping: INSERT OR REPLACE of every configured pair.
SaveCategoryMapping(cat, mapping) ==
  {r \in cat : ~\E n \in mapping : n.code = r.code} \cup mapping

(***************************************************************************)
(* Configuration and legacy rows                                           *)
(***************************************************************************)
\* config.get_markets(): the configured markets in file order; DataProcessor
\* iterates them with config_details.items().
Markets ==
  << [key |-> "m1", settlement |-> "S1", name |-> "M1", address |-> "A1"],
     [key |-> "m2", settlement |-> "S2", name |-> "M2", address |-> "A2"] >>

\* f"{market_info['name']} {market_info['address']}"
DbMarketName(info) ==
  CASE info.name = "M1" /\ info.address = "A1" -> "M1 A1"
    [] info.name = "M2" /\ info.address = "A2" -> "M2 A2"

\* The CATEGORIES mapping of app.py (two of its entries).
CATEGORIES == {[code |-> "1", name |-> "bread"], [code |-> "2", name |-> "milk"]}

\* Rows a legacy table can yield: fields Item, id, ClientPrice and the
\* activity flag Act; a field is a text value, NULL or ABSENT.
Rows ==
  { [Item |-> "x",    id |-> "c1",   ClientPrice |-> "1",    Act |-> ABSENT],
    [Item |-> "y",    id |-> "c1",   ClientPrice |-> "2",    Act |-> "*"],
    [Item |-> "z",    id |-> "c2",   ClientPrice |-> "2",    Act |-> ABSENT],
    [Item |-> ABSENT, id |-> "c1",   ClientPrice |-> "1",    Act |-> ABSENT],
    [Item |-> "x",    id |-> NULL,   ClientPrice |-> "1",    Act |-> "*"],
    [Item |-> "x",    id |-> "c1",   ClientPrice |-> ABSENT, Act |-> ABSENT],
    [Item |-> "x",    id |-> "c1",   ClientPrice |-> "abc",  Act |-> ABSENT],
    [Item |-> ABSENT, id |-> "c1",   ClientPrice |-> "abc",  Act |-> ABSENT],
    [Item |-> "x",    id |-> "c1",   ClientPrice |-> "1",    Act |-> "-"],
    [Item |-> ABSENT, id |-> "c1",   ClientPrice |-> "1",    Act |-> "-"] }

\* The rows of the tables in the concurrent specification.
ConcRows ==
  { [Item |-> "x", id |-> "c1", ClientPrice |-> "1",    Act |-> ABSENT],
    [Item |-> "x", id |-> "c1", ClientPrice |-> ABSENT, Act |-> ABSENT] }

\* hasattr(row, f) and row.f is not None
Has(v) == v \notin {ABSENT, NULL}

\* float() accepts the text; any other text raises ValueError.
IsNumeric(v) == v \in {"1", "2", "1.0", "2.0"}

\* float(v) for a text float() accepts, as SQLite stores it.
Float(v) == CASE v \in {"1", "1.0"} -> "1.0" [] v \in {"2", "2.0"} -> "2.0"

\* str(v)
Str(v) == IF v = NULL THEN "None" ELSE v

\* The missing_attributes list built by the pre-validation.
MissingAttributes(row) ==
  (IF Has(row.Item) THEN <<>> ELSE <<"Item">>)
    \o (IF Has(row.id) THEN <<>> ELSE <<"id">>)
    \o (IF Has(row.ClientPrice) THEN <<>> ELSE <<"ClientPrice">>)

\* What the body of the row loop does with one row:
\*   kind "append": tuple goes to current_batch, key to inserted_item_keys;
\*   kind "skip":   _log_skipped_row is called once, skipped_rows += 1, continue;
\*   kind "raise":  an exception leaves the row loop (ValueError from float()
\*                  outside the inner try, or inside its except clause).
HandleRow(info, categories, row) ==
  LET missing == MissingAttributes(row)
      db_market_name == DbMarketName(info)
  IN IF missing # <<>>
     THEN IF Has(row.ClientPrice) /\ ~IsNumeric(row.ClientPrice)
          THEN [kind |-> "raise", exc |-> "ValueError"]
          ELSE [kind |-> "skip", reason |-> "Missing attributes", missing |-> missing]
     ELSE IF IsNumeric(row.ClientPrice)
          THEN LET item_name == Str(row.Item)
                   item_code == Str(row.id)
                   client_price == Float(row.ClientPrice)
                   initial_category_code == DictGet(categories, <<item_code, db_market_name>>)
               IN [kind |-> "append",
                   product_data |-> <<info.settlement, db_market_name, item_name, item_code,
                                      initial_category_code, client_price, NULL>>,
                   item_key |-> <<item_code, db_market_name>>]
          ELSE \* except (ValueError, TypeError): product_data is rebuilt with
               \* float(row.ClientPrice), which raises again inside the handler
               IF Has(row.ClientPrice) /\ ~IsNumeric(row.ClientPrice)
               THEN [kind |-> "raise", exc |-> "ValueError"]
               ELSE [kind |-> "skip", reason |-> "Data format error", missing |-> <<>>]

\* The assignments_to_update list built after a successful batch insert.
RECURSIVE AssignmentsToUpdate(_, _, _)
AssignmentsToUpdate(categories, inserted_item_keys, i) ==
  IF i > Len(inserted_item_keys) THEN <<>>
  ELSE LET item_key == inserted_item_keys[i]
           assigned_category == DictGet(categories, item_key)
       IN (IF assigned_category \notin {NULL, ""}
           THEN << <<assigned_category, item_key[1], item_key[2]>> >> ELSE <<>>)
          \o AssignmentsToUpdate(categories, inserted_item_keys, i + 1)

\* error_msg of the per-market exception handler for exception text e.
CriticalError(e) ==
  CASE e = "ValueError" -> "Critical error: ValueError"
    [] e = "bindings" -> "Critical error: bindings"
    [] e = "no such table" -> "Critical error: no such table"
    [] e = "unreadable" -> "Critical error: unreadable"

(***************************************************************************)
(* State                                                                   *)
(***************************************************************************)
VARIABLES
  products,            \* rows of table products
  products_exists,     \* table products exists
  next_id,             \* its AUTOINCREMENT counter (sqlite_sequence)
  fts,                 \* product rows covered by the products_fts index
  fts_exists,          \* table products_fts exists
  product_categories,  \* rows of table product_categories
  categories,          \* rows of table categories
  skipped_log,         \* blocks written to skipped_rows.log by _log_skipped_row
  dicts,               \* the status dicts created so far; the global name
                       \* processing_status is bound to the last one
  run,                 \* per run thread: position and local variables
  checked,             \* start_processing handlers past the is_processing check
  starts,              \* start requests that passed the check so far
  is_main_process,     \* WERKZEUG_RUN_MAIN != 'true'
  processing_mode,     \* processing.mode of config.yaml
  nrows,               \* per market: rows of its legacy table, -1 when unreadable
  row_pool,            \* the rows the legacy tables can yield
  db_call              \* SpecDb: the last Database method call and its outcome

dbvars == <<products, products_exists, next_id, fts, fts_exists, product_categories, categories>>
envvars == <<is_main_process, processing_mode, nrows, row_pool>>
reqvars == <<checked, starts>>
vars == <<dbvars, skipped_log, dicts, run, reqvars, envvars, db_call>>

Threads == 1..(MaxStarts + 1)
MarketIds == 1..Len(Markets)

\* The dict the global name processing_status is bound to.
processing_status == dicts[Len(dicts)]

Msg(tag) == [tag |-> tag, a |-> 0, b |-> 0]

\* The module-level processing_status literal.
InitialStatus ==
  [is_processing |-> FALSE, current_market |-> "", progress |-> 0, total_markets |-> 0,
   processed_markets |-> 0, message |-> Msg("Ready for processing"), error |-> NULL,
   database_ready |-> FALSE]

\* The dict start_processing rebinds processing_status to.
ManualStatus ==
  [is_processing |-> TRUE, current_market |-> "", progress |-> 0, total_markets |-> 0,
   processed_markets |-> 0, message |-> Msg("Starting manual processing"), error |-> NULL,
   database_ready |-> FALSE]

NoRow == [Item |-> ABSENT, id |-> ABSENT, ClientPrice |-> ABSENT, Act |-> ABSENT]

\* A thread that has not been started.  Besides the position pc, the exception
\* in flight exc and the local variables of initialize_app and
\* paradox_to_sqlite, three history fields are kept: seen, the rows the run has
\* read so far as <<market index, row>>, backup_path, the backup copy of
\* the store made by this run (no statement of initialize_app makes one), and
\* phases, the phases the run has been through as <<phase, market index>>
\* (market index 0 for a phase that is not of one market).
Unborn ==
  [pc |-> "unborn", exc |-> NULL, current_categories |-> {}, status |-> 0,
   total_rows |-> 0, skipped_rows |-> 0, market_count |-> 0, total_all_rows |-> 0,
   processed_rows |-> 0, row_num |-> 0, row |-> NoRow, current_batch |-> <<>>,
   inserted_item_keys |-> <<>>, assignments_to_update |-> <<>>,
   seen |-> <<>>, backup_path |-> NULL, phases |-> <<>>]

\* threading.Thread(target=initialize_app).start()
Started == [Unborn EXCEPT !.pc = "L145"]

\* Stores the application can find in ./products.sqlite when it starts.
StoredProducts ==
  { ProductRow(1, <<"S1", "M1 A1", "x", "c1", "1.0", NULL>>),
    ProductRow(2, <<"S2", "M2 A2", "w", "c9", "2.0", NULL>>) }

InitialStores ==
  { [fresh |-> TRUE, products |-> {}, next_id |-> 0, product_categories |-> {},
     categories |-> {}],
    [fresh |-> FALSE, products |-> StoredProducts, next_id |-> 2,
     product_categories |-> {CategoryRow("M1 A1", "c1", "1"), CategoryRow("M2 A2", "c9", "2")},
     categories |-> {[code |-> "1", name |-> "old bread"], [code |-> "99", name |-> "retired"]}],
    [fresh |-> FALSE, products |-> StoredProducts, next_id |-> 2,
     product_categories |-> {CategoryRow("M1 A1", "c1", "2")},
     categories |-> CATEGORIES] }

\* check_database_ready(): the store holds at least one product.
CheckDatabaseReady(rows) == rows # {}

\* The state once app.py has been imported: initialize_database_tables() has
\* run (on a fresh store it creates the tables and saves the mapping; on an
\* existing one CREATE TABLE products raises "already exists" and only the
\* ready flag is refreshed), and in startup mode the first run thread has
\* been started.
InitStore(st) ==
  /\ products = st.products
  /\ products_exists = TRUE
  /\ next_id = st.next_id
  /\ fts = st.products
  /\ fts_exists = TRUE
  /\ product_categories = st.product_categories
  /\ categories = IF st.fresh THEN SaveCategoryMapping(st.categories, CATEGORIES)
                  ELSE st.categories
  /\ dicts = << [InitialStatus EXCEPT !.database_ready = CheckDatabaseReady(st.products)] >>

InitApp(modes, pool, maxrows) ==
  /\ \E st \in InitialStores : InitStore(st)
  /\ skipped_log = <<>>
  /\ is_main_process \in BOOLEAN
  /\ processing_mode \in modes
  /\ nrows \in [MarketIds -> -1..maxrows]
  /\ row_pool = pool
  /\ run = [t \in Threads |->
              IF t = 1 /\ processing_mode = "startup" /\ is_main_process
              THEN Started ELSE Unborn]
  /\ checked = 0
  /\ starts = 0
  /\ db_call = [op |-> "none", arg |-> <<>>, raised |-> FALSE]

(***************************************************************************)
(* HTTP handler start_processing (app.py)                                  *)
(***************************************************************************)
\* Lines 205-209: the request passes the reloader and is_processing checks.
\* (A request that fails a check returns an error and changes nothing.)
StartCheck ==
  /\ is_main_process
  /\ ~processing_status.is_processing
  /\ starts < MaxStarts
  /\ checked' = checked + 1
  /\ starts' = starts + 1
  /\ UNCHANGED <<dbvars, skipped_log, dicts, run, envvars, db_call>>

\* Lines 211-222: processing_status is rebound to a new dict and a run
\* thread is started.
StartReset ==
  /\ checked > 0
  /\ \E t \in Threads :
       /\ run[t].pc = "unborn"
       /\ \A u \in Threads : u < t => run[u].pc # "unborn"
       /\ run' = [run EXCEPT ![t] = Started]
  /\ dicts' = Append(dicts, ManualStatus)
  /\ checked' = checked - 1
  /\ UNCHANGED <<dbvars, skipped_log, starts, envvars, db_call>>

\* Request bodies of /api/update-category and /api/remove-category that pass
\* the handlers' checks (a non-empty id list, a non-empty category code).
RequestIds == {{1}, {1, 2}}
RequestCategories == {"1", "2"}

\* Lines 276-294: update_category; the handler checks only that db is set.
UpdateCategory ==
  /\ \E product_ids \in RequestIds, category_code \in RequestCategories :
       product_categories' = UpdateProductCategory(product_categories, products_exists,
                                                   products, product_ids, category_code)
  /\ UNCHANGED <<products, products_exists, next_id, fts, fts_exists, categories,
                 skipped_log, dicts, run, reqvars, envvars, db_call>>

\* Lines 295-307: remove_category; the handler checks only that db is set.
RemoveCategory ==
  /\ \E product_ids \in RequestIds :
       product_categories' = RemoveProductCategory(product_categories, products_exists,
                                                   products, product_ids)
  /\ UNCHANGED <<products, products_exists, next_id, fts, fts_exists, categories,
                 skipped_log, dicts, run, reqvars, envvars, db_call>>

(***************************************************************************)
(* Run thread: initialize_app (app.py)                                     *)
(***************************************************************************)
G == Len(dicts)

\* Lines 140-146: the reloader check, then is_processing and message are set.
L145(t) ==
  /\ run[t].pc = "L145"
  /\ IF ~is_main_process
     THEN /\ dicts' = [dicts EXCEPT ![G] = [@ EXCEPT !.is_processing = FALSE,
                                                  !.message = Msg("Processing skipped")]]
          /\ run' = [run EXCEPT ![t].pc = "skipped"]
     ELSE /\ dicts' = [dicts EXCEPT ![G] = [@ EXCEPT !.is_processing = TRUE,
                                                  !.message = Msg("Starting database setup")]]
          /\ run' = [run EXCEPT ![t].pc = "L148"]
  /\ UNCHANGED <<dbvars, skipped_log, reqvars, envvars, db_call>>

\* Lines 148-153: config.yaml is loaded (Config raises when the file is
\* missing, unparsable or lists no markets) and total_markets is set.
L148(t) ==
  /\ run[t].pc = "L148"
  /\ \E loaded \in BOOLEAN :
       IF loaded
       THEN /\ dicts' = [dicts EXCEPT ![G].total_markets = Len(Markets)]
            /\ run' = [run EXCEPT ![t].pc = "L156"]
       ELSE /\ run' = [run EXCEPT ![t].pc = "L173", ![t].exc = "config"]
            /\ UNCHANGED dicts
  /\ UNCHANGED <<dbvars, skipped_log, reqvars, envvars, db_call>>

\* Lines 155-157 without the call of get_current_categories: the run goes on
\* to drop the tables with no snapshot taken.
L156NoSnapshot(t) ==
  /\ run[t].pc = "L156"
  /\ dicts' = [dicts EXCEPT ![G].message = Msg("Saving current category assignments")]
  /\ run' = [run EXCEPT ![t].pc = "L160"]
  /\ UNCHANGED <<dbvars, skipped_log, reqvars, envvars, db_call>>

\* Lines 155-157: the classifications are read into current_categories.
L156(t) ==
  /\ run[t].pc = "L156"
  /\ dicts' = [dicts EXCEPT ![G].message = Msg("Saving current category assignments")]
  /\ run' = [run EXCEPT ![t].pc = "L160",
                        ![t].current_categories = GetCurrentCategories(product_categories),
                        ![t].phases = Append(@, <<"snapshot", 0>>)]
  /\ UNCHANGED <<dbvars, skipped_log, reqvars, envvars, db_call>>

\* Lines 159-160, drop_tables first statement: DROP TABLE IF EXISTS products.
L160(t) ==
  /\ run[t].pc = "L160"
  /\ dicts' = [dicts EXCEPT ![G].message = Msg("Setting up database tables")]
  /\ products' = {}
  /\ products_exists' = FALSE
  /\ next_id' = 0
  /\ run' = [run EXCEPT ![t].pc = "L160b", ![t].phases = Append(@, <<"drop", 0>>)]
  /\ UNCHANGED <<fts, fts_exists, product_categories, categories, skipped_log, reqvars,
                 envvars, db_call>>

\* drop_tables second statement: DROP TABLE IF EXISTS products_fts.
L160b(t) ==
  /\ run[t].pc = "L160b"
  /\ fts' = {}
  /\ fts_exists' = FALSE
  /\ run' = [run EXCEPT ![t].pc = "L161"]
  /\ UNCHANGED <<products, products_exists, next_id, product_categories, categories,
                 skipped_log, dicts, reqvars, envvars, db_call>>

\* Line 161, create_tables first statement: CREATE TABLE products, which
\* raises when the table exists.
L161(t) ==
  /\ run[t].pc = "L161"
  /\ IF products_exists
     THEN /\ run' = [run EXCEPT ![t].pc = "L173", ![t].exc = "already exists"]
          /\ UNCHANGED products_exists
     ELSE /\ products_exists' = TRUE
          /\ run' = [run EXCEPT ![t].pc = "L161b"]
  /\ UNCHANGED <<products, next_id, fts, fts_exists, product_categories, categories,
                 skipped_log, dicts, reqvars, envvars, db_call>>

\* create_tables, the remaining statements: CREATE VIRTUAL TABLE products_fts
\* (raises when it exists), CREATE TABLE IF NOT EXISTS for product_categories
\* and categories, and the 'rebuild' of the index from products.
L161b(t) ==
  /\ run[t].pc = "L161b"
  /\ IF fts_exists
     THEN /\ run' = [run EXCEPT ![t].pc = "L173", ![t].exc = "already exists"]
          /\ UNCHANGED <<fts, fts_exists>>
     ELSE IF ~products_exists
     THEN /\ fts_exists' = TRUE
          /\ run' = [run EXCEPT ![t].pc = "L173", ![t].exc = "no such table"]
          /\ UNCHANGED fts
     ELSE /\ fts_exists' = TRUE
          /\ fts' = products
          /\ run' = [run EXCEPT ![t].pc = "L163", ![t].phases = Append(@, <<"create", 0>>)]
  /\ UNCHANGED <<products, products_exists, next_id, product_categories, categories,
                 skipped_log, dicts, reqvars, envvars, db_call>>

\* Line 163: db.save_category_mapping(CATEGORIES).
L163(t) ==
  /\ run[t].pc = "L163"
  /\ categories' = SaveCategoryMapping(categories, CATEGORIES)
  /\ run' = [run EXCEPT ![t].pc = "L166", ![t].phases = Append(@, <<"catalog", 0>>)]
  /\ UNCHANGED <<products, products_exists, next_id, fts, fts_exists, product_categories,
                 skipped_log, dicts, reqvars, envvars, db_call>>

\* Lines 165-166: DataProcessor(markets, db, processing_status, current_categories)
\* keeps a reference to the dict processing_status is bound to now, and its
\* constructor truncates skipped_rows.log.
L166(t) ==
  /\ run[t].pc = "L166"
  /\ dicts' = [dicts EXCEPT ![G].message = Msg("Starting data processing")]
  /\ skipped_log' = <<>>
  /\ run' = [run EXCEPT ![t].pc = "L83", ![t].status = G]
  /\ UNCHANGED <<dbvars, reqvars, envvars, db_call>>

\* Line 168: the run returned; is_processing is cleared.
L168(t) ==
  /\ run[t].pc = "L168"
  /\ dicts' = [dicts EXCEPT ![G].is_processing = FALSE]
  /\ run' = [run EXCEPT ![t].pc = "L170"]
  /\ UNCHANGED <<dbvars, skipped_log, reqvars, envvars, db_call>>

\* Lines 169-170: the success message and database_ready = True.
L170(t) ==
  /\ run[t].pc = "L170"
  /\ dicts' = [dicts EXCEPT ![G] = [@ EXCEPT !.message = Msg("Data processing completed successfully"),
                                             !.database_ready = TRUE]]
  /\ run' = [run EXCEPT ![t].pc = "L171"]
  /\ UNCHANGED <<dbvars, skipped_log, reqvars, envvars, db_call>>

\* Line 171: error = None.
L171(t) ==
  /\ run[t].pc = "L171"
  /\ dicts' = [dicts EXCEPT ![G].error = NULL]
  /\ run' = [run EXCEPT ![t].pc = "done"]
  /\ UNCHANGED <<dbvars, skipped_log, reqvars, envvars, db_call>>

\* Line 173, except clause: is_processing is cleared.
L173(t) ==
  /\ run[t].pc = "L173"
  /\ dicts' = [dicts EXCEPT ![G].is_processing = FALSE]
  /\ run' = [run EXCEPT ![t].pc = "L174"]
  /\ UNCHANGED <<dbvars, skipped_log, reqvars, envvars, db_call>>

\* Lines 174-175: error = str(e) and the error message.
L174(t) ==
  /\ run[t].pc = "L174"
  /\ dicts' = [dicts EXCEPT ![G] = [@ EXCEPT !.error = run[t].exc,
                                             !.message = Msg("Error during processing")]]
  /\ run' = [run EXCEPT ![t].pc = "failed"]
  /\ UNCHANGED <<dbvars, skipped_log, reqvars, envvars, db_call>>

(***************************************************************************)
(* Run thread: DataProcessor.paradox_to_sqlite (processor.py)              *)
(***************************************************************************)
\* _count_total_rows: unreadable tables are logged and count as 0 rows.
RECURSIVE CountTotalRows(_, _)
CountTotalRows(counts, i) ==
  IF i > Len(Markets) THEN 0
  ELSE (IF counts[i] >= 0 THEN counts[i] ELSE 0) + CountTotalRows(counts, i + 1)

\* int((processed_rows / total_all_rows) * 100)
Progress(processed_rows, total_all_rows) == (processed_rows * 100) \div total_all_rows

\* _update_status(market_name, progress, message) on the processor's dict.
UpdateStatus(t, market_name, progress, message) ==
  dicts' = [dicts EXCEPT ![run[t].status] = [@ EXCEPT !.current_market = market_name,
                                                       !.progress = progress,
                                                       !.message = message]]

\* Lines 74-92: the rows are counted; with no rows the status is set to
\* "No rows found to process" and the method returns normally.
L83(t) ==
  /\ run[t].pc = "L83"
  /\ LET total_all_rows == CountTotalRows(nrows, 1)
     IN IF total_all_rows = 0
        THEN /\ UpdateStatus(t, "Error", 0, Msg("No rows found to process"))
             /\ run' = [run EXCEPT ![t].pc = "L168", ![t].phases = Append(@, <<"count", 0>>)]
        ELSE /\ run' = [run EXCEPT ![t].pc = "L94", ![t].total_all_rows = total_all_rows,
                                   ![t].phases = Append(@, <<"count", 0>>)]
             /\ UNCHANGED dicts
  /\ UNCHANGED <<dbvars, skipped_log, reqvars, envvars, db_call>>

\* Lines 94-112: the next market of the loop; its status line is written and
\* its table opened and counted (an unreadable table raises).
L94(t) ==
  /\ run[t].pc = "L94"
  /\ run[t].market_count < Len(Markets)
  /\ LET market_count == run[t].market_count + 1
     IN /\ UpdateStatus(t, Markets[market_count].key, 0, Msg("Starting market"))
        /\ IF nrows[market_count] < 0
           THEN run' = [run EXCEPT ![t].pc = "L250", ![t].exc = "unreadable",
                                   ![t].market_count = market_count]
           ELSE run' = [run EXCEPT ![t].pc = "L115", ![t].market_count = market_count,
                                   ![t].row_num = 0, ![t].current_batch = <<>>,
                                   ![t].inserted_item_keys = <<>>,
                                   ![t].phases = Append(@, <<"open", market_count>>)]
  /\ UNCHANGED <<dbvars, skipped_log, reqvars, envvars, db_call>>

\* Lines 115-205: one iteration of the row loop.
L115(t) ==
  /\ run[t].pc = "L115"
  /\ run[t].row_num < nrows[run[t].market_count]
  /\ \E row \in row_pool :
       LET r == run[t]
           info == Markets[r.market_count]
           row_num == r.row_num + 1
           market_rows == nrows[r.market_count]
           processed_rows == r.processed_rows + 1
           progress == Progress(processed_rows, r.total_all_rows)
           res == HandleRow(info, r.current_categories, row)
           seen == [r EXCEPT !.row_num = row_num, !.row = row,
                             !.processed_rows = processed_rows,
                             !.seen = Append(@, <<r.market_count, row>>)]
       IN /\ IF row_num % StatusEvery = 0 \/ row_num = market_rows
             THEN UpdateStatus(t, info.key, progress, [tag |-> "Market rows", a |-> row_num, b |-> market_rows])
             ELSE UNCHANGED dicts
          /\ CASE res.kind = "append" ->
                    /\ run' = [run EXCEPT ![t] =
                                 [seen EXCEPT !.current_batch = Append(@, res.product_data),
                                              !.inserted_item_keys = Append(@, res.item_key)]]
                    /\ UNCHANGED skipped_log
               [] res.kind = "skip" ->
                    /\ skipped_log' = Append(skipped_log,
                                             [market |-> info.key, row |-> row_num,
                                              reason |-> res.reason, missing |-> res.missing])
                    /\ run' = [run EXCEPT ![t] = [seen EXCEPT !.skipped_rows = @ + 1]]
               [] res.kind = "raise" ->
                    /\ run' = [run EXCEPT ![t] = [seen EXCEPT !.pc = "L250", !.exc = res.exc]]
                    /\ UNCHANGED skipped_log
  /\ UNCHANGED <<dbvars, reqvars, envvars, db_call>>

\* Lines 209-224: the market's batch is inserted; on success total_rows grows
\* and the assignments to re-apply are collected.
L210(t) ==
  /\ run[t].pc = "L115"
  /\ run[t].row_num = nrows[run[t].market_count]
  /\ LET r == run[t]
         res == InsertProductsBatch(products_exists, [rows |-> products, seq |-> next_id],
                                    r.current_batch)
     IN IF res.raised
        THEN /\ run' = [run EXCEPT ![t].pc = "L250",
                                   ![t].exc = IF products_exists THEN "bindings"
                                              ELSE "no such table"]
             /\ UNCHANGED <<products, next_id>>
        ELSE /\ products' = res.rows
             /\ next_id' = res.seq
             /\ run' = [run EXCEPT ![t].pc = "L226",
                                   ![t].total_rows = @ + Len(r.current_batch),
                                   ![t].phases = Append(@, <<"write", r.market_count>>),
                                   ![t].assignments_to_update =
                                      AssignmentsToUpdate(r.current_categories,
                                                          r.inserted_item_keys, 1)]
  /\ UNCHANGED <<products_exists, fts, fts_exists, product_categories, categories,
                 skipped_log, dicts, reqvars, envvars, db_call>>

\* Lines 226-244: update_categories_batch for a non-empty list, then
\* processed_markets is set.
L226(t) ==
  /\ run[t].pc = "L226"
  /\ product_categories' =
       IF run[t].assignments_to_update # <<>>
       THEN UpdateCategoriesBatch(product_categories, run[t].assignments_to_update, 1)
       ELSE product_categories
  /\ dicts' = [dicts EXCEPT ![run[t].status].processed_markets = run[t].market_count]
  /\ run' = [run EXCEPT ![t].pc = "L94"]
  /\ UNCHANGED <<products, products_exists, next_id, fts, fts_exists, categories,
                 skipped_log, reqvars, envvars, db_call>>

\* The per-market handler without its raise statement: the error is recorded
\* and the loop goes on with the next market.
L250Swallow(t) ==
  /\ run[t].pc = "L250"
  /\ dicts' = [dicts EXCEPT ![run[t].status] =
                 [@ EXCEPT !.error = CriticalError(run[t].exc),
                           !.message = Msg(CriticalError(run[t].exc))]]
  /\ run' = [run EXCEPT ![t].pc = "L94"]
  /\ UNCHANGED <<dbvars, skipped_log, reqvars, envvars, db_call>>

\* Lines 246-253: the per-market handler records the error on the processor's
\* dict and re-raises.
L250(t) ==
  /\ run[t].pc = "L250"
  /\ dicts' = [dicts EXCEPT ![run[t].status] =
                 [@ EXCEPT !.error = CriticalError(run[t].exc),
                           !.message = Msg(CriticalError(run[t].exc))]]
  /\ run' = [run EXCEPT ![t].pc = "L173"]
  /\ UNCHANGED <<dbvars, skipped_log, reqvars, envvars, db_call>>

\* Line 260, after the last market: rebuild_fts_index(); a sqlite3.Error is
\* logged and False returned, which the caller ignores.
L260(t) ==
  /\ run[t].pc = "L94"
  /\ run[t].market_count = Len(Markets)
  /\ fts' = IF fts_exists /\ products_exists THEN products ELSE fts
  /\ run' = [run EXCEPT ![t].pc = "L264",
                        ![t].phases = Append(@, IF fts_exists /\ products_exists
                                                THEN <<"reindex", 0>>
                                                ELSE <<"reindex failed", 0>>)]
  /\ UNCHANGED <<products, products_exists, next_id, fts_exists, product_categories,
                 categories, skipped_log, dicts, reqvars, envvars, db_call>>

\* Line 264: the final status update with the totals.
L264(t) ==
  /\ run[t].pc = "L264"
  /\ UpdateStatus(t, "Complete", 100,
                  [tag |-> "Processing completed", a |-> run[t].total_rows,
                   b |-> run[t].skipped_rows])
  /\ run' = [run EXCEPT ![t].pc = "L168"]
  /\ UNCHANGED <<dbvars, skipped_log, reqvars, envvars, db_call>>

(***************************************************************************)
(* The application                                                         *)
(***************************************************************************)
\* One step of a run thread.
NextRun ==
  \/ \E t \in Threads : L145(t)
  \/ \E t \in Threads : L148(t)
  \/ \E t \in Threads : L156(t)
  \/ \E t \in Threads : L160(t)
  \/ \E t \in Threads : L160b(t)
  \/ \E t \in Threads : L161(t)
  \/ \E t \in Threads : L161b(t)
  \/ \E t \in Threads : L163(t)
  \/ \E t \in Threads : L166(t)
  \/ \E t \in Threads : L83(t)
  \/ \E t \in Threads : L94(t)
  \/ \E t \in Threads : L115(t)
  \/ \E t \in Threads : L210(t)
  \/ \E t \in Threads : L226(t)
  \/ \E t \in Threads : L250(t)
  \/ \E t \in Threads : L260(t)
  \/ \E t \in Threads : L264(t)
  \/ \E t \in Threads : L168(t)
  \/ \E t \in Threads : L170(t)
  \/ \E t \in Threads : L171(t)
  \/ \E t \in Threads : L173(t)
  \/ \E t \in Threads : L174(t)

\* The application: run threads and start requests, over small legacy tables.
Init == InitApp({"startup", "manual"}, ConcRows, MaxConcRows)

Next ==
  \/ StartCheck
  \/ StartReset
  \/ NextRun

Spec == Init /\ [][Next]_vars

\* The startup run on its own (no start request is made), over every row of Rows.
InitRun == InitApp({"startup"}, Rows, MaxRows)

SpecRun == InitRun /\ [][NextRun]_vars

\* The startup run and the classification requests of the web interface.
InitEdit == InitApp({"startup"}, ConcRows, MaxConcRows)

NextEdit ==
  \/ UpdateCategory
  \/ RemoveCategory
  \/ NextRun

SpecEdit == InitEdit /\ [][NextEdit]_vars

(***************************************************************************)
(* The Database class on its own                                           *)
(***************************************************************************)
\* Parameter tuples for insert_products_batch: two with the same composite
\* key and different attributes, one with the same item code in another
\* market, and one with seven elements as paradox_to_sqlite builds them.
DbTuples ==
  { <<"S1", "M1 A1", "x", "c1", "1.0", NULL>>,
    <<"S1", "M1 A1", "y", "c1", "2.0", "1.0">>,
    <<"S2", "M2 A2", "x", "c1", "1.0", NULL>>,
    <<"S1", "M1 A1", "x", "c1", NULL, "1.0", NULL>> }

\* Elements for update_categories_batch: (category_code, market_name, item_code).
DbAssignments ==
  { <<"1", "M1 A1", "c1">>, <<"2", "M2 A2", "c7">> }

\* The sequences over S of length at most n.
RECURSIVE SeqsUpTo(_, _)
SeqsUpTo(S, n) ==
  IF n = 0 THEN {<<>>}
  ELSE LET shorter == SeqsUpTo(S, n - 1)
       IN shorter \cup {Append(q, e) : q \in shorter, e \in S}

\* A new store file on which create_tables() has been called; nothing of the
\* application is running.
InitDb ==
  /\ products = {}
  /\ products_exists = TRUE
  /\ next_id = 0
  /\ fts = {}
  /\ fts_exists = TRUE
  /\ product_categories = {}
  /\ categories = {}
  /\ skipped_log = <<>>
  /\ dicts = <<InitialStatus>>
  /\ run = [t \in Threads |-> Unborn]
  /\ checked = 0
  /\ starts = 0
  /\ is_main_process = TRUE
  /\ processing_mode = "manual"
  /\ nrows = [i \in MarketIds |-> 0]
  /\ row_pool = {}
  /\ db_call = [op |-> "none", arg |-> <<>>, raised |-> FALSE]

appvars == <<skipped_log, dicts, run, reqvars, envvars>>

\* db.insert_products_batch(batch)
DbInsertProductsBatch ==
  \E batch \in SeqsUpTo(DbTuples, MaxBatch) :
    /\ next_id + Len(batch) <= MaxId
    /\ LET res == InsertProductsBatch(products_exists, [rows |-> products, seq |-> next_id], batch)
       IN /\ products' = res.rows
          /\ next_id' = res.seq
          /\ db_call' = [op |-> "insert_products_batch", arg |-> batch, raised |-> res.raised]
    /\ UNCHANGED <<products_exists, fts, fts_exists, product_categories, categories, appvars>>

\* drop_tables with foreign keys enforced: dropping products deletes the
\* product_categories rows that reference it (ON DELETE CASCADE).
DbDropTablesCascade ==
  /\ products' = {}
  /\ products_exists' = FALSE
  /\ next_id' = 0
  /\ fts' = {}
  /\ fts_exists' = FALSE
  /\ product_categories' = {}
  /\ db_call' = [op |-> "drop_tables", arg |-> <<>>, raised |-> FALSE]
  /\ UNCHANGED <<categories, appvars>>

\* db.drop_tables()
DbDropTables ==
  /\ products' = {}
  /\ products_exists' = FALSE
  /\ next_id' = 0
  /\ fts' = {}
  /\ fts_exists' = FALSE
  /\ db_call' = [op |-> "drop_tables", arg |-> <<>>, raised |-> FALSE]
  /\ UNCHANGED <<product_categories, categories, appvars>>

\* db.create_tables(): raises on the first CREATE whose table exists.
DbCreateTables ==
  /\ IF products_exists \/ fts_exists
     THEN /\ db_call' = [op |-> "create_tables", arg |-> <<>>, raised |-> TRUE]
          /\ products_exists' = TRUE
          /\ UNCHANGED <<fts, fts_exists>>
     ELSE /\ db_call' = [op |-> "create_tables", arg |-> <<>>, raised |-> FALSE]
          /\ products_exists' = TRUE
          /\ fts_exists' = TRUE
          /\ fts' = products
  /\ UNCHANGED <<products, next_id, product_categories, categories, appvars>>

\* db.update_categories_batch(assignments)
DbUpdateCategoriesBatch ==
  \E assignments \in SeqsUpTo(DbAssignments, MaxBatch) :
    /\ product_categories' = UpdateCategoriesBatch(product_categories, assignments, 1)
    /\ db_call' = [op |-> "update_categories_batch", arg |-> assignments, raised |-> FALSE]
    /\ UNCHANGED <<products, products_exists, next_id, fts, fts_exists, categories, appvars>>

\* db.cleanup_orphaned_categories(); with no products table the error is
\* logged and 0 returned.
DbCleanupOrphanedCategories ==
  /\ product_categories' = IF products_exists
                           THEN CleanupOrphanedCategories(product_categories, products)
                           ELSE product_categories
  /\ db_call' = [op |-> "cleanup_orphaned_categories", arg |-> <<>>, raised |-> FALSE]
  /\ UNCHANGED <<products, products_exists, next_id, fts, fts_exists, categories, appvars>>

\* db.rebuild_fts_index()
DbRebuildFtsIndex ==
  /\ fts' = IF fts_exists /\ products_exists THEN products ELSE fts
  /\ db_call' = [op |-> "rebuild_fts_index", arg |-> <<>>, raised |-> FALSE]
  /\ UNCHANGED <<products, products_exists, next_id, fts_exists, product_categories,
                 categories, appvars>>

\* Mappings for save_category_mapping: the configured one and an older one.
DbMappings ==
  { CATEGORIES, {[code |-> "1", name |-> "old bread"]} }

\* db.save_category_mapping(mapping)
DbSaveCategoryMapping ==
  \E mapping \in DbMappings :
    /\ categories' = SaveCategoryMapping(categories, mapping)
    /\ db_call' = [op |-> "save_category_mapping", arg |-> <<>>, raised |-> FALSE]
    /\ UNCHANGED <<products, products_exists, next_id, fts, fts_exists, product_categories,
                   appvars>>

NextDb ==
  \/ DbSaveCategoryMapping
  \/ DbInsertProductsBatch
  \/ DbDropTables
  \/ DbCreateTables
  \/ DbUpdateCategoriesBatch
  \/ DbCleanupOrphanedCategories
  \/ DbRebuildFtsIndex

SpecDb == InitDb /\ [][NextDb]_vars

(***************************************************************************)
(* The reapplication step on its own                                       *)
(***************************************************************************)
\* Classifications the store can hold when the snapshot is taken; in some the
\* item code is the name of a market, in one the two components are equal.
ReClassifications ==
  { CategoryRow("M1 A1", "c1", "2"),
    CategoryRow("c1", "M1 A1", "1"),
    CategoryRow("M2 A2", "M1 A1", "1"),
    CategoryRow("M1 A1", "M1 A1", "2") }

\* Valid legacy rows; the id of some is the name of a market.
ReRows ==
  { [Item |-> "x", id |-> "c1",    ClientPrice |-> "1", Act |-> ABSENT],
    [Item |-> "x", id |-> "M1 A1", ClientPrice |-> "1", Act |-> ABSENT],
    [Item |-> "x", id |-> "M2 A2", ClientPrice |-> "1", Act |-> ABSENT] }

\* The run thread has taken the snapshot (line 156) of a store holding some of
\* ReClassifications and is in the row loop of the first market.
InitReapply ==
  /\ products = {}
  /\ products_exists = TRUE
  /\ next_id = 0
  /\ fts = {}
  /\ fts_exists = TRUE
  /\ product_categories \in SUBSET ReClassifications
  /\ categories = CATEGORIES
  /\ skipped_log = <<>>
  /\ dicts = <<InitialStatus>>
  /\ run = [t \in Threads |->
              IF t = 1
              THEN [Started EXCEPT !.pc = "L115", !.status = 1, !.market_count = 1,
                                   !.current_categories = GetCurrentCategories(product_categories)]
              ELSE Unborn]
  /\ checked = 0
  /\ starts = 0
  /\ is_main_process = TRUE
  /\ processing_mode = "startup"
  /\ nrows = [i \in MarketIds |-> 0]
  /\ row_pool = ReRows
  /\ db_call = [op |-> "none", arg |-> <<>>, raised |-> FALSE]

\* Lines 164-188 for a valid row of the current market: the tuple joins the
\* batch and its key the tracked keys.
ReTrack ==
  /\ Len(run[1].inserted_item_keys) < MaxBatch
  /\ \E row \in row_pool :
       LET res == HandleRow(Markets[run[1].market_count], run[1].current_categories, row)
       IN /\ res.kind = "append"
          /\ run' = [run EXCEPT ![1].current_batch = Append(@, res.product_data),
                                ![1].inserted_item_keys = Append(@, res.item_key)]
  /\ db_call' = [op |-> "track", arg |-> <<>>, raised |-> FALSE]
  /\ UNCHANGED <<dbvars, skipped_log, dicts, reqvars, envvars>>

\* Lines 216-229 once insert_products_batch has returned True: the list is
\* built from the tracked keys and handed to update_categories_batch when it
\* is not empty; the loop goes on with the next market, if there is one.
ReApply ==
  /\ LET assignments == AssignmentsToUpdate(run[1].current_categories,
                                            run[1].inserted_item_keys, 1)
     IN /\ product_categories' =
             IF assignments # <<>>
             THEN UpdateCategoriesBatch(product_categories, assignments, 1)
             ELSE product_categories
        /\ run' = [run EXCEPT ![1].assignments_to_update = assignments,
                              ![1].current_batch = <<>>,
                              ![1].inserted_item_keys = <<>>,
                              ![1].market_count = (@ % Len(Markets)) + 1]
        /\ db_call' = [op |-> "reapply", arg |-> assignments, raised |-> FALSE]
  /\ UNCHANGED <<products, products_exists, next_id, fts, fts_exists, categories,
                 skipped_log, dicts, reqvars, envvars>>

NextReapply ==
  \/ ReTrack
  \/ ReApply

SpecReapply == InitReapply /\ [][NextReapply]_vars

(***************************************************************************)
(* Properties                                                              *)
(***************************************************************************)
\* Thread t is between setting is_processing (line 145) and clearing it
\* (line 168 or 173).
Executing(t) ==
  run[t].pc \notin {"unborn", "L145", "L170", "L171", "L174", "done", "failed", "skipped"}

\* The step of thread t is an iteration of the row loop; the row it read is run'[t].row.
ReadsRow(t) == run[t].pc = "L115" /\ run'[t].row_num = run[t].row_num + 1

\* The row is marked inactive: Act is present and is not the sentinel "*".
Inactive(row) == Has(row.Act) /\ row.Act # "*"

\* The row passes the validation of the specification.
ValidRow(row) ==
  MissingAttributes(row) = <<>> /\ IsNumeric(row.ClientPrice) /\ ~Inactive(row)

\* The row lacks a required field (and is otherwise unremarkable).
LacksField(row) ==
  /\ MissingAttributes(row) # <<>>
  /\ ~Inactive(row)
  /\ Has(row.ClientPrice) => IsNumeric(row.ClientPrice)

\* The composite key under which row of market i is stored.
RowKey(i, row) == <<DbMarketName(Markets[i]), Str(row.id)>>

\* C2: a run that has dropped the products table (or its index) made a backup
\* of the store earlier in the same run.
BackupBeforeDrop ==
  \A t \in Threads : run[t].pc \in {"L160b", "L161"} => run[t].backup_path # NULL

\* C3: after a run that completed successfully every product_categories row
\* has the key of some products row.
NoOrphanAfterRun ==
  \A t \in Threads :
    run[t].pc = "done" =>
      \A r \in product_categories : \E q \in products : KeyOf(q) = KeyOf(r)

\* C4: at most one run thread is executing at any time.
OneRunAtATime ==
  \A t, u \in Threads : Executing(t) /\ Executing(u) => t = u

\* C5: a run that has ended, whose tables were all readable and whose rows
\* were all either valid or lacking a required field, ended successfully, the
\* products are exactly the valid rows (one per composite key), total_rows is
\* the number of valid rows and skipped_rows the number of rejected rows.
ValidRowsStored ==
  \A t \in Threads :
    LET seen == run[t].seen
        valid == {i \in 1..Len(seen) : ValidRow(seen[i][2])}
        rejected == {i \in 1..Len(seen) : LacksField(seen[i][2])}
    IN (/\ run[t].pc \in {"done", "failed"}
        /\ run[t].exc # "config"
        /\ \A m \in MarketIds : nrows[m] >= 0
        /\ valid \cup rejected = 1..Len(seen))
       => /\ run[t].pc = "done"
          /\ {KeyOf(q) : q \in products} = {RowKey(seen[i][1], seen[i][2]) : i \in valid}
          /\ run[t].total_rows = Cardinality(valid)
          /\ run[t].skipped_rows = Cardinality(rejected)

\* The last tuple of batch with the composite key of batch[i] is batch[i] itself.
LastWithKey(batch, i) ==
  \A j \in (i + 1)..Len(batch) : <<batch[j][2], batch[j][4]>> # <<batch[i][2], batch[i][4]>>

MissingFieldSkipped ==
  [][\A t \in Threads :
       (ReadsRow(t) /\ MissingAttributes(run'[t].row) # <<>>) =>
         /\ run'[t].current_batch = run[t].current_batch
         /\ Len(skipped_log') = Len(skipped_log) + 1
         /\ run'[t].skipped_rows = run[t].skipped_rows + 1
         /\ run'[t].pc = "L115"]_vars

\* C8: an iteration that reads a row with all required fields and a price
\* float() rejects leaves the batch alone, writes one skip record with reason
\* "Data format error", adds one to skipped_rows, stays in the row loop and
\* raises nothing.
BadPriceSkipped ==
  [][\A t \in Threads :
       (/\ ReadsRow(t)
        /\ MissingAttributes(run'[t].row) = <<>>
        /\ ~IsNumeric(run'[t].row.ClientPrice)) =>
         /\ run'[t].current_batch = run[t].current_batch
         /\ Len(skipped_log') = Len(skipped_log) + 1
         /\ skipped_log'[Len(skipped_log')].reason = "Data format error"
         /\ run'[t].skipped_rows = run[t].skipped_rows + 1
         /\ run'[t].pc = "L115"
         /\ run'[t].exc = NULL]_vars

\* C9: an iteration that reads a row whose Act flag is present and is not "*"
\* leaves the batch alone, writes one skip record with reason "inactive" and
\* adds one to skipped_rows, whether or not a required field is missing.
InactiveSkipped ==
  [][\A t \in Threads :
       (ReadsRow(t) /\ Inactive(run'[t].row)) =>
         /\ run'[t].current_batch = run[t].current_batch
         /\ Len(skipped_log') = Len(skipped_log) + 1
         /\ skipped_log'[Len(skipped_log')].reason = "inactive"
         /\ run'[t].skipped_rows = run[t].skipped_rows + 1]_vars

\* C10: database_ready is not true while error is set.
ReadyImpliesNoError ==
  ~(processing_status.database_ready /\ processing_status.error # NULL)

\* insert_products_batch raised in the market loop of thread t.
BatchWriteFailed(t) ==
  run[t].exc \in {"bindings", "no such table"} /\ run[t].market_count > 0

\* C11: once the batch write of a market has failed, the run is on its way
\* through the two except clauses: it opens no further market, inserts
\* nothing, does not rebuild the index and does not set database_ready; when it
\* has ended, is_processing is false and error is set.
BatchFailureIsFatal ==
  /\ [](\A t \in Threads :
          BatchWriteFailed(t) =>
            /\ run[t].pc \in {"L250", "L173", "L174", "failed"}
            /\ run[t].pc = "failed" =>
                 /\ ~processing_status.is_processing
                 /\ processing_status.error # NULL)
  /\ [][\A t \in Threads :
          BatchWriteFailed(t) =>
            /\ run'[t].market_count = run[t].market_count
            /\ products' = products
            /\ fts' = fts
            /\ processing_status'.database_ready => processing_status.database_ready]_vars

\* C11 witness: the run has ended after the batch of the first market failed,
\* and the second market had rows to read.
BatchFailureWitness ==
  \E t \in Threads :
    /\ BatchWriteFailed(t)
    /\ run[t].pc = "failed"
    /\ run[t].market_count = 1
    /\ nrows[2] > 0

\* C12: a call of insert_products_batch with a tuple the INSERT rejects raises;
\* a call that raises leaves the products table and its id counter as they
\* were; a call with an empty batch does not raise and leaves them as they were.
InsertBatchAllOrNothing ==
  [][db_call'.op = "insert_products_batch" =>
       /\ (products_exists /\ \E i \in 1..Len(db_call'.arg) : BadBinding(db_call'.arg[i]))
            => db_call'.raised
       /\ db_call'.raised => products' = products /\ next_id' = next_id
       /\ db_call'.arg = <<>> =>
            ~db_call'.raised /\ products' = products /\ next_id' = next_id]_vars

\* C12 witness: a batch whose second tuple was rejected has raised, and its
\* first tuple, accepted on its own, would have replaced a stored row.
InsertBatchWitness ==
  /\ db_call.op = "insert_products_batch"
  /\ db_call.raised
  /\ Len(db_call.arg) = 2
  /\ ~BadBinding(db_call.arg[1])
  /\ BadBinding(db_call.arg[2])
  /\ \E q \in products :
       /\ KeyOf(q) = <<db_call.arg[1][2], db_call.arg[1][4]>>
       /\ q.item_name # db_call.arg[1][3]

\* C13: when the legacy table of some market cannot be read, no run drops the
\* products table, no run gets as far as a returned insert_products_batch, no
\* run ends successfully, and a run that has ended left error set.
UnreadableSourceStopsRun ==
  (\E m \in MarketIds : nrows[m] < 0) =>
    /\ products_exists
    /\ \A t \in Threads :
         /\ run[t].pc \notin {"L226", "done"}
         /\ run[t].pc = "failed" => processing_status.error # NULL

\* C14: drop_tables and create_tables leave the rows of product_categories and
\* of categories as they were.
DropCreateKeepsCategories ==
  [][db_call'.op \in {"drop_tables", "create_tables"} =>
       /\ product_categories' = product_categories
       /\ categories' = categories]_vars

\* C14 witness: create_tables has succeeded, so drop_tables ran before it, on
\* a store with classifications, a category mapping and an emptied products table.
DropCreateWitness ==
  /\ db_call.op = "create_tables"
  /\ ~db_call.raised
  /\ products = {}
  /\ next_id = 0
  /\ Cardinality(product_categories) = 2
  /\ categories = CATEGORIES

\* Thread t has returned from save_category_mapping (line 163).
CatalogReloaded(t) == run[t].pc = "L166" \/ run[t].status # 0

\* C15: once a run has reloaded the catalog, the categories table holds
\* exactly the configured mapping.
CatalogEqualsMapping ==
  \A t \in Threads : CatalogReloaded(t) => categories = CATEGORIES

\* C16: after a run that ended without error, is_processing is false, error
\* is None, progress is 100 and the message is the one carrying total_rows
\* and skipped_rows of that run.
CompleteStatusHasTotals ==
  \A t \in Threads :
    run[t].pc = "done" =>
      /\ ~processing_status.is_processing
      /\ processing_status.error = NULL
      /\ processing_status.progress = 100
      /\ processing_status.message =
           [tag |-> "Processing completed", a |-> run[t].total_rows, b |-> run[t].skipped_rows]

\* C17: when the row loop of a market has ended, every tuple of the batch
\* whose key (market_name, item_code) has a category c in the snapshot carries
\* c as the category looked up for it (line 174), and the list built for
\* update_categories_batch from the tracked keys (lines 219-224) holds an
\* element that update_categories_batch stores as c under that same key.
ReapplyCoversSnapshot ==
  \A t \in Threads :
    (run[t].pc = "L115" /\ run[t].row_num = nrows[run[t].market_count]) =>
      LET batch == run[t].current_batch
          snapshot == run[t].current_categories
          assignments == AssignmentsToUpdate(snapshot, run[t].inserted_item_keys, 1)
      IN \A i \in 1..Len(batch) :
           LET market_name == batch[i][2]
               item_code == batch[i][4]
               c == DictGet(snapshot, <<market_name, item_code>>)
           IN c # NULL =>
                /\ batch[i][5] = c
                /\ \E j \in 1..Len(assignments) :
                     UpsertCategory({}, assignments[j][2], assignments[j][3], assignments[j][1])
                       = {CategoryRow(market_name, item_code, c)}

\* The phases of the market loop from market i on: each market is opened and
\* read, then its batch is written.
RECURSIVE MarketPhases(_)
MarketPhases(i) ==
  IF i > Len(Markets) THEN <<>>
  ELSE << <<"open", i>>, <<"write", i>> >> \o MarketPhases(i + 1)

\* The phases of a run in the order of the claim.
PhaseOrder ==
  << <<"snapshot", 0>>, <<"drop", 0>>, <<"create", 0>>, <<"catalog", 0>>, <<"count", 0>> >>
    \o MarketPhases(1) \o << <<"reindex", 0>> >>

\* C18: the phases a run has been through are an initial part of PhaseOrder:
\* the snapshot is read before the drop; drop, create and the catalog reload
\* come before the tables are counted and before any table is opened; the
\* markets are opened in the order of the configuration, and the batch of a
\* market is written before the next market is opened.
PhasesInOrder ==
  \A t \in Threads :
    /\ Len(run[t].phases) <= Len(PhaseOrder)
    /\ \A i \in 1..Len(run[t].phases) : run[t].phases[i] = PhaseOrder[i]

\* C18 witness: a run has been through every phase, with rows read from both
\* markets.
PhasesWitness ==
  \E t \in Threads :
    /\ run[t].phases = PhaseOrder
    /\ \E i, j \in 1..Len(run[t].seen) : run[t].seen[i][1] = 1 /\ run[t].seen[j][1] = 2

\* C19: while a run thread is between setting and clearing is_processing,
\* database_ready of the status the application reports is false.
ReadyFalseWhileActive ==
  \A t \in Threads : Executing(t) => ~processing_status.database_ready

\* C20: while a run thread is between setting and clearing is_processing, a
\* step that is not a step of a run thread (a request handler) leaves the
\* product_categories table as it was.
NoClassificationWriteDuringRun ==
  [][((\E t \in Threads : Executing(t)) /\ run' = run) =>
       product_categories' = product_categories]_vars

\* The positions in the phases of thread t at which rebuild_fts_index was
\* called, whatever it returned.
ReindexCalls(t) ==
  {i \in 1..Len(run[t].phases) : run[t].phases[i][1] \in {"reindex", "reindex failed"}}

\* C21: a call of rebuild_fts_index comes after the batch of every market has
\* been written; a run that ended successfully called it exactly once, as its
\* last phase, the call did not fail, and the index holds exactly the rows of
\* the products table.
ReindexOnceAfterLastBatch ==
  \A t \in Threads :
    /\ \A i \in ReindexCalls(t) :
         \A m \in MarketIds : \E j \in 1..(i - 1) : run[t].phases[j] = <<"write", m>>
    /\ run[t].pc = "done" =>
         /\ Cardinality(ReindexCalls(t)) = 1
         /\ run[t].phases[Len(run[t].phases)] = <<"reindex", 0>>
         /\ fts = products

\* C22: every element the reapplication hands to update_categories_batch is
\* stored as a row (market_name, item_code, category) whose key is a key of
\* the snapshot and whose category is the snapshot's category for that key,
\* and the step puts no other row into product_categories.
ReapplyWritesSnapshotRows ==
  [][db_call'.op = "reapply" =>
       LET snapshot == run[1].current_categories
           written == {CategoryRow(db_call'.arg[j][2], db_call'.arg[j][3], db_call'.arg[j][1]) :
                         j \in 1..Len(db_call'.arg)}
       IN /\ \A r \in written :
               /\ <<KeyOf(r), r.category_code>> \in snapshot
               /\ r \in product_categories'
          /\ product_categories' \ product_categories \subseteq written
          /\ \A r \in product_categories' \ written : r \in product_categories]_vars

\* C22 witness: the reapplication has written an assignment for a tracked row
\* whose item code is the name of a market; the key written is not the key of
\* that product.
ReapplyWitness ==
  /\ db_call.op = "reapply"
  /\ Len(db_call.arg) = 1
  /\ db_call.arg[1][2] # db_call.arg[1][3]
  /\ db_call.arg[1][2] \in {DbMarketName(Markets[m]) : m \in MarketIds}
  /\ db_call.arg[1][3] \in {DbMarketName(Markets[m]) : m \in MarketIds}

====
